---- MODULE Spec2Model ----
(***************************************************************************)
(* Model of the updater commands of src-tauri/src/lib.rs (mod updater_cmd): *)
(* get_app_versions, check_update_with_auth and check_and_install_update,  *)
(* run as concurrent invocations over one process environment.             *)
(*                                                                         *)
(* Strings whose content the code inspects (tokens, release tags) are      *)
(* sequences of characters; a character is a one-element string naming it. *)
(* Opaque strings (versions, notes, error texts) are TLA+ strings.         *)
(***************************************************************************)
EXTENDS Integers, Sequences, FiniteSets, TLC

VARIABLES
    buildToken,   \* option_env!("TAURI_UPDATE_TOKEN"): fixed when the binary is built
    startEnv,     \* the two token variables of the process environment when setup() is done
    env,          \* the two token variables of the process environment, now
    files,        \* the .env files: of the working directory and of its parent
    updaterCfgOk, \* whether the updater configuration lets builder.build() succeed
    checkReply,   \* what updater.check() answers, for a request without / with a bearer
    index,        \* the documents the release index may serve with a 2xx status
    calls,        \* the invocations in flight, one per caller
    lastCheck,    \* outcome variant of the last check_update_with_auth that returned
    budget,       \* invocations the observed caller may still start
    background    \* whether other callers invoke commands meanwhile

vars == <<buildToken, startEnv, env, files, updaterCfgOk, checkReply, index,
          calls, lastCheck, budget, background>>

-----------------------------------------------------------------------------
(* Option<T> *)

None == <<>>
Some(v) == <<v>>
IsSome(o) == o # <<>>
Unwrap(o) == o[1]

(* Option::or_else with the closure's value passed in; the closure is only *)
(* run (the variable only read) when the option is None.                   *)
OrElseFlipped(opt, alt) == IF IsSome(alt) THEN alt ELSE opt
OrElse(opt, alt) == IF IsSome(opt) THEN opt ELSE alt

-----------------------------------------------------------------------------
(* Characters and strings *)

(* Bytes of the UTF-8 encoding of a character. "U+00E9" is a two-byte one. *)
Utf8Len(c) == IF c = "U+00E9" THEN 2 ELSE 1

RECURSIVE ByteLen(_)
ByteLen(s) == IF s = <<>> THEN 0 ELSE Utf8Len(Head(s)) + ByteLen(Tail(s))

(* str::is_char_boundary(i): 0, the length, or the start of a character.   *)
IsCharBoundary(s, i) ==
    \E k \in 0..Len(s) : ByteLen(SubSeq(s, 1, k)) = i

(* HeaderValue: a byte is accepted when it is a tab or >= 32 and not 127.  *)
(* "LF" is the line feed, the one rejected character of the alphabet.      *)
ValidHeaderChar(c) == c # "LF"
ValidHeaderValue(s) == \A i \in 1..Len(s) : ValidHeaderChar(s[i])

Bearer(t) == <<"B", "e", "a", "r", "e", "r", " ">> \o t

Min(a, b) == IF a < b THEN a ELSE b

(* lib.rs:82  &t[..t.len().min(10)]: slicing a str off a character         *)
(* boundary panics.                                                        *)
TokenPrefixBytes == 10
PrefixSlicePanics(t) == ~IsCharBoundary(t, Min(ByteLen(t), TokenPrefixBytes))

StartsWith(s, p) == Len(s) >= Len(p) /\ SubSeq(s, 1, Len(p)) = p
StripPrefix(s, p) ==
    IF StartsWith(s, p) THEN Some(SubSeq(s, Len(p) + 1, Len(s))) ELSE None
UnwrapOr(o, d) == IF IsSome(o) THEN Unwrap(o) ELSE d

PrefixAppV == <<"a", "p", "p", "-", "v">>
PrefixApp == <<"a", "p", "p", "-">>
PrefixV == <<"v">>

(* lib.rs:128-139, the closure that cleans the tag.                        *)
CleanTagAppFirst(s) ==
    IF StartsWith(s, PrefixApp) THEN UnwrapOr(StripPrefix(s, PrefixApp), s)
    ELSE IF StartsWith(s, PrefixAppV) THEN UnwrapOr(StripPrefix(s, PrefixAppV), s)
    ELSE IF StartsWith(s, PrefixV) THEN UnwrapOr(StripPrefix(s, PrefixV), s)
    ELSE s
CleanTag(s) ==
    IF StartsWith(s, PrefixAppV) THEN UnwrapOr(StripPrefix(s, PrefixAppV), s)
    ELSE IF StartsWith(s, PrefixApp) THEN UnwrapOr(StripPrefix(s, PrefixApp), s)
    ELSE IF StartsWith(s, PrefixV) THEN UnwrapOr(StripPrefix(s, PrefixV), s)
    ELSE s

-----------------------------------------------------------------------------
(* serde_json::Value, as far as the code looks into it: a document gives,  *)
(* for each of the three keys, no member, a member that is no string, or a *)
(* string. A document that is no object has no member at all.              *)

JAbsent == <<"absent">>
JOther == <<"other">>
JString(s) == <<"string", s>>

JsonGet(j, key) == IF j[key] = JAbsent THEN None ELSE Some(j[key])
AsStr(v) == IF v[1] = "string" THEN Some(v[2]) ELSE None

LatestOfNoFallback(json) ==
    IF ~IsSome(json) THEN None
    ELSE LET member == JsonGet(Unwrap(json), "tag_name")
             str == IF IsSome(member) THEN AsStr(Unwrap(member)) ELSE None
         IN  IF IsSome(str) THEN Some(CleanTag(Unwrap(str))) ELSE None

(* lib.rs:124-139 *)
LatestOf(json) ==
    IF ~IsSome(json) THEN None
    ELSE LET j == Unwrap(json)
             member == OrElse(JsonGet(j, "tag_name"), JsonGet(j, "name"))
             str == IF IsSome(member) THEN AsStr(Unwrap(member)) ELSE None
         IN  IF IsSome(str) THEN Some(CleanTag(Unwrap(str))) ELSE None

(* lib.rs:140-144 *)
LatestNotesOf(json) ==
    IF ~IsSome(json) THEN None
    ELSE LET member == JsonGet(Unwrap(json), "body")
         IN  IF IsSome(member) THEN AsStr(Unwrap(member)) ELSE None

-----------------------------------------------------------------------------
(* The process environment and the .env files (dotenvy).                   *)

TauriVar == "TAURI_UPDATE_TOKEN"
GithubVar == "GITHUB_TOKEN"
TokenVars == {TauriVar, GithubVar}

NoVars == [k \in TokenVars |-> None]
NoFile == [exists |-> FALSE, vars |-> NoVars]
DotenvFile(t, g) ==
    [exists |-> TRUE, vars |-> [k \in TokenVars |-> IF k = TauriVar THEN t ELSE g]]

(* dotenvy::dotenv(): the first .env found going up from the working       *)
(* directory. Whether it parses is not looked at to find it.               *)
FindDotenv(fs) ==
    IF fs.cwd.exists THEN fs.cwd
    ELSE IF fs.parent.exists THEN fs.parent
    ELSE NoFile

(* Loading a file sets the variables it defines that are not set yet. A    *)
(* file that does not parse sets what its readable lines define.           *)
LoadFile(e, f) ==
    IF ~f.exists THEN e
    ELSE [k \in TokenVars |-> IF IsSome(e[k]) THEN e[k] ELSE f.vars[k]]

LoadParentAlways(e, fs) == LoadFile(e, fs.parent)

(* lib.rs:48-55 *)
LoadParentIfNoToken(e, fs) ==
    IF ~IsSome(e[TauriVar]) /\ ~IsSome(e[GithubVar])
    THEN LoadFile(e, fs.parent)
    ELSE e

-----------------------------------------------------------------------------
(* Result values *)

(* lib.rs:33-39 *)
AppVersions(current, latest, latest_notes, api_error) ==
    [current |-> current, latest |-> latest, latest_notes |-> latest_notes,
     api_error |-> api_error]

(* lib.rs:164-169 *)
UpdateInfo(available, version, body, error) ==
    [available |-> available, version |-> version, body |-> body, error |-> error]

(* lib.rs:154-161 *)
UpdateResult(available, version, body, error, installed) ==
    [available |-> available, version |-> version, body |-> body, error |-> error,
     installed |-> installed]

(* The outcome variant a caller reads off an UpdateInfo / UpdateResult.    *)
Variant(r) ==
    IF "installed" \in DOMAIN r /\ r.installed THEN "Installed"
    ELSE IF r.available THEN "Available"
    ELSE IF IsSome(r.error) THEN "Failed"
    ELSE "NoUpdate"

-----------------------------------------------------------------------------
(* The values the model draws from *)

(* app.package_info().version of the running application, lib.rs:44 *)
AppVersion == "0.1.0"

TokA == <<"g", "h", "p", "_", "A">>
TokB == <<"g", "h", "p", "_", "B">>
TokFile == <<"g", "h", "p", "_", "0", "1", "2", "3", "4", "5", "6", "7">>
(* nine one-byte characters, then a two-byte one over bytes 9 and 10 *)
TokWide == <<"g", "h", "p", "_", "0", "1", "2", "3", "4", "U+00E9">>
(* a value with a line feed in it *)
TokLF == <<"g", "h", "p", "LF">>

NoUpdateReply == [kind |-> "none", version |-> "", body |-> None, msg |-> ""]
UpdateReply(v, b) == [kind |-> "update", version |-> v, body |-> b, msg |-> ""]
ErrorReply(m) == [kind |-> "err", version |-> "", body |-> None, msg |-> m]

Idle ==
    [op |-> "none", pc |-> "idle", token |-> None, update |-> NoUpdateReply,
     result |-> None, checkCalls |-> 0, installCalls |-> 0,
     checkRet |-> "-", installRet |-> "-", http |-> "-", sent |-> None,
     status |-> <<>>, errBody |-> None,
     doc |-> [tag_name |-> <<"absent">>, name |-> <<"absent">>, body |-> <<"absent">>],
     prev |-> "-"]

(* Caller 0 is the observed one: it invokes any command, one after the     *)
(* other, and the values returned to it are kept. The other callers invoke *)
(* get_app_versions, the one command that writes the process environment,  *)
(* at any time; what they are returned is dropped.                         *)
Observed == 0
NumBackground == 1
Slots == 0..NumBackground
MaxCalls == 2

BuildTokens == {None, Some(TokA)}
OsTauriTokens == {None, Some(TokB), Some(TokWide)}
OsGithubTokens == {None, Some(TokA), Some(TokLF)}
(* no .env at all; one in the parent directory only, defining the token;   *)
(* one in the working directory defining no token and one in the parent    *)
(* directory defining it                                                   *)
DotenvLayouts ==
    { [cwd |-> NoFile, parent |-> NoFile],
      [cwd |-> NoFile, parent |-> DotenvFile(Some(TokFile), None)],
      [cwd |-> DotenvFile(None, None), parent |-> DotenvFile(Some(TokFile), None)] }

CheckReplies ==
    { [anon |-> ErrorReply("403 Forbidden"), auth |-> UpdateReply("2.0.0", Some("notes"))],
      [anon |-> UpdateReply("2.0.0", None), auth |-> UpdateReply("2.0.0", None)],
      [anon |-> NoUpdateReply, auth |-> NoUpdateReply] }

Doc(tag_name, name, body) == [tag_name |-> tag_name, name |-> name, body |-> body]

SampleTags ==
    { <<"a", "p", "p", "-", "v", "1", ".", "2", ".", "3">>,
      <<"a", "p", "p", "-", "2", ".", "0", ".", "0">>,
      <<"v", "3", ".", "1", ".", "0">>,
      <<"4", ".", "0", ".", "0">> }

SampleIndex ==
    { Doc(JString(<<"a", "p", "p", "-", "v", "1", ".", "2", ".", "3">>), JAbsent,
          JString("notes")),
      Doc(JAbsent, JString(<<"v", "3", ".", "1", ".", "0">>), JAbsent),
      Doc(JOther, JString(<<"v", "3", ".", "1", ".", "0">>), JOther),
      Doc(JAbsent, JAbsent, JString("notes")) }

-----------------------------------------------------------------------------
(* Init: the state when setup() has run, lib.rs:341-374. setup() loads the *)
(* first .env found (lib.rs:355); no command has been invoked yet.         *)

InitWorld ==
    /\ buildToken \in BuildTokens
    /\ files \in DotenvLayouts
    /\ \E t \in OsTauriTokens, g \in OsGithubTokens :
          startEnv = LoadFile([k \in TokenVars |-> IF k = TauriVar THEN t ELSE g],
                              FindDotenv(files))
    /\ env = startEnv
    /\ \/ updaterCfgOk = TRUE /\ checkReply \in CheckReplies
       \/ /\ updaterCfgOk = FALSE
          /\ checkReply = [anon |-> NoUpdateReply, auth |-> NoUpdateReply]
    /\ calls = [s \in Slots |-> Idle]
    /\ lastCheck = "-"

Init ==
    /\ InitWorld
    /\ index = SampleIndex
    /\ budget = MaxCalls
    /\ background = TRUE

(* One invocation by one caller, the release index holding one release     *)
(* whose tag is any string of the tag alphabet up to MaxTagLen characters, *)
(* or one of the sample tags.                                              *)
TagAlphabet == {"a", "p", "-", "v"}
MaxTagLen == 6
Tags == UNION { [1..n -> TagAlphabet] : n \in 0..MaxTagLen } \cup SampleTags

InitNorm ==
    /\ buildToken = None
    /\ files = [cwd |-> NoFile, parent |-> NoFile]
    /\ startEnv = NoVars
    /\ env = startEnv
    /\ updaterCfgOk = TRUE
    /\ checkReply = [anon |-> UpdateReply("2.0.0", None), auth |-> UpdateReply("2.0.0", None)]
    /\ calls = [s \in Slots |-> Idle]
    /\ lastCheck = "-"
    /\ \E t \in Tags : index = { Doc(JString(t), JAbsent, JAbsent) }
    /\ budget = 1
    /\ background = FALSE

-----------------------------------------------------------------------------
(* A caller invokes a command. Commands are async: they run on the         *)
(* runtime's threads, several at a time.                                   *)

Free(s) == calls[s].pc \in {"idle", "returned", "panicked"}

Invoke(s, op) ==
    /\ Free(s)
    /\ IF s = Observed
       THEN budget > 0 /\ budget' = budget - 1
       ELSE /\ background
            /\ op = "get_app_versions"
            /\ \A r \in Slots \ {Observed} : r < s => ~Free(r)
            /\ UNCHANGED budget
    /\ calls' = [calls EXCEPT ![s] =
                    [Idle EXCEPT !.op = op,
                                 !.pc = IF op = "get_app_versions" THEN "dotenv" ELSE "token1",
                                 !.prev = lastCheck]]
    /\ UNCHANGED <<buildToken, startEnv, env, files, updaterCfgOk, checkReply,
                   index, lastCheck, background>>

At(s, op, pc) == calls[s].op = op /\ calls[s].pc = pc

Fixed ==
    <<buildToken, startEnv, files, updaterCfgOk, checkReply, index, budget, background>>

(* The invocation of caller s ends: c is its record at that point.         *)
End(s, c) == [calls EXCEPT ![s] = IF s = Observed THEN c ELSE Idle]

Return(s, result) ==
    End(s, [calls[s] EXCEPT !.pc = "returned", !.result = Some(result)])

Panic(s) == End(s, [calls[s] EXCEPT !.pc = "panicked"])

-----------------------------------------------------------------------------
(* get_app_versions, lib.rs:42-151 *)

Gav == "get_app_versions"

(* lib.rs:48  let _ = dotenvy::dotenv(); *)
GavDotenv(s) ==
    /\ At(s, Gav, "dotenv")
    /\ env' = LoadFile(env, FindDotenv(files))
    /\ calls' = [calls EXCEPT ![s].pc = "parent"]
    /\ UNCHANGED <<Fixed, lastCheck>>

(* lib.rs:49-55 *)
GavParentEnv(s) ==
    /\ At(s, Gav, "parent")
    /\ env' = LoadParentIfNoToken(env, files)
    /\ calls' = [calls EXCEPT ![s].pc = "client"]
    /\ UNCHANGED <<Fixed, lastCheck>>

GavClientErrorWithLatest(current, e) ==
    AppVersions(current, Some(current), None, Some(<<e>>))

(* lib.rs:65-73, the value returned when the HTTP client cannot be built *)
GavClientError(current, e) == AppVersions(current, None, None, Some(<<e>>))

(* lib.rs:57-74 *)
GavClient(s) ==
    /\ At(s, Gav, "client")
    /\ \E built \in BOOLEAN :
          calls' = IF built
                   THEN [calls EXCEPT ![s].pc = "token1"]
                   ELSE Return(s, GavClientError(AppVersion, "builder error"))
    /\ UNCHANGED <<Fixed, env, lastCheck>>

(* get_github_token, lib.rs:14-18: the variables in the order they are read *)
GetGithubTokenSourcesTauriOnly == <<TauriVar, TauriVar>>
GetGithubTokenSources == <<TauriVar, GithubVar>>

(* lib.rs:77 -> lib.rs:14-17: the build-time token, else the first variable *)
GavToken1(s) ==
    /\ At(s, Gav, "token1")
    /\ LET t == OrElse(buildToken, env[GetGithubTokenSources[1]])
       IN  calls' = [calls EXCEPT ![s].token = t,
                                  ![s].pc = IF IsSome(t) THEN "request" ELSE "token2"]
    /\ UNCHANGED <<Fixed, env, lastCheck>>

(* lib.rs:18: else the second variable *)
GavToken2(s) ==
    /\ At(s, Gav, "token2")
    /\ calls' = [calls EXCEPT ![s].token = OrElse(@, env[GetGithubTokenSources[2]]),
                               ![s].pc = "request"]
    /\ UNCHANGED <<Fixed, env, lastCheck>>

(* What request.send() and the reading of the response can come to. A      *)
(* header value reqwest rejects makes send() fail with no request sent.    *)
HttpOutcome(kind, status, body, doc) ==
    [kind |-> kind, status |-> status, body |-> body, doc |-> doc]
NoDoc == Doc(JAbsent, JAbsent, JAbsent)
HttpOutcomes(token, docs) ==
    IF IsSome(token) /\ ~ValidHeaderValue(Bearer(Unwrap(token)))
    THEN { HttpOutcome("send_err", <<>>, None, NoDoc) }
    ELSE { HttpOutcome("send_err", <<>>, None, NoDoc),
           HttpOutcome("status", <<"404", "Not Found">>, Some("body"), NoDoc),
           HttpOutcome("status", <<"403", "Forbidden">>, None, NoDoc),
           HttpOutcome("bad_json", <<"200", "OK">>, None, NoDoc) }
         \cup { HttpOutcome("json", <<"200", "OK">>, None, d) : d \in docs }

FetchedBodyRequired(o) ==
    CASE o.kind = "send_err" -> <<None, Some(<<"error sending request">>)>>
      [] o.kind = "status" ->
            IF IsSome(o.body)
            THEN <<None, Some(o.status \o <<Unwrap(o.body)>>)>>
            ELSE <<None, Some(<<"error decoding response body">>)>>
      [] o.kind = "bad_json" -> <<None, Some(<<"Erreur parsing JSON: ", "decode">>)>>
      [] o.kind = "json" -> <<Some(o.doc), None>>

(* lib.rs:94-123: (json, api_error) *)
Fetched(o) ==
    CASE o.kind = "send_err" -> <<None, Some(<<"error sending request">>)>>
      [] o.kind = "status" ->
            <<None, Some(o.status \o <<UnwrapOr(o.body, "Impossible de lire le corps")>>)>>
      [] o.kind = "bad_json" -> <<None, Some(<<"Erreur parsing JSON: ", "decode">>)>>
      [] o.kind = "json" -> <<Some(o.doc), None>>

(* lib.rs:124-150 *)
GavResultNoCurrent(current, fetched) ==
    AppVersions("", LatestOf(fetched[1]), LatestNotesOf(fetched[1]), fetched[2])
GavResult(current, fetched) ==
    AppVersions(current, LatestOf(fetched[1]), LatestNotesOf(fetched[1]), fetched[2])

(* lib.rs:78-151. With the logger at Info (lib.rs:345) the arguments of    *)
(* the log::info! of lib.rs:82 are evaluated.                              *)
GavRequest(s) ==
    /\ At(s, Gav, "request")
    /\ LET token == calls[s].token
       IN  IF IsSome(token) /\ PrefixSlicePanics(Unwrap(token))
           THEN calls' = Panic(s)
           ELSE \E o \in HttpOutcomes(token, index) :
                  calls' = End(s, [calls[s] EXCEPT
                              !.pc = "returned",
                              !.result = Some(GavResult(AppVersion, Fetched(o))),
                              !.sent = IF ValidHeaderValue(Bearer(UnwrapOr(token, <<>>)))
                                       THEN Some(token)
                                       ELSE None,
                              !.http = o.kind,
                              !.status = o.status,
                              !.errBody = o.body,
                              !.doc = o.doc])
    /\ UNCHANGED <<Fixed, env, lastCheck>>

GavNext(s) ==
    \/ GavDotenv(s)
    \/ GavParentEnv(s)
    \/ GavClient(s)
    \/ GavToken1(s)
    \/ GavToken2(s)
    \/ GavRequest(s)

-----------------------------------------------------------------------------
(* The updater plugin, as both update commands use it.                     *)

(* UpdaterBuilder::header: Err when the value is no valid header value.    *)
HeaderAccepted(token) == ~IsSome(token) \/ ValidHeaderValue(Bearer(Unwrap(token)))

(* updater.check(): the server's answer depends on the request carrying a  *)
(* bearer or not.                                                          *)
CheckAnswer(token) == checkReply[IF IsSome(token) THEN "auth" ELSE "anon"]

-----------------------------------------------------------------------------
(* check_update_with_auth, lib.rs:174-234 *)

Cua == "check_update_with_auth"

(* lib.rs:176-179: the variables in the order they are read *)
CuaTokenSources == <<GithubVar, TauriVar>>

(* lib.rs:176-178 *)
CuaToken1(s) ==
    /\ At(s, Cua, "token1")
    /\ LET t == OrElse(buildToken, env[CuaTokenSources[1]])
       IN  calls' = [calls EXCEPT ![s].token = t,
                                  ![s].pc = IF IsSome(t) THEN "build" ELSE "token2"]
    /\ UNCHANGED <<Fixed, env, lastCheck>>

(* lib.rs:179 *)
CuaToken2(s) ==
    /\ At(s, Cua, "token2")
    /\ calls' = [calls EXCEPT ![s].token = OrElse(@, env[CuaTokenSources[2]]),
                               ![s].pc = "build"]
    /\ UNCHANGED <<Fixed, env, lastCheck>>

(* lib.rs:186-191, 199-204, 219-224 *)
CuaFailed(e) == UpdateInfo(FALSE, None, None, Some(<<e>>))
(* lib.rs:211-216 *)
CuaNoUpdate == UpdateInfo(FALSE, None, None, None)
CuaAvailableNoVersion(u) == UpdateInfo(TRUE, None, u.body, None)
(* lib.rs:228-233 *)
CuaAvailable(u) == UpdateInfo(TRUE, Some(u.version), u.body, None)

CuaReturn(s, result) ==
    /\ calls' = Return(s, result)
    /\ lastCheck' = Variant(result)

(* lib.rs:181-206 *)
CuaBuild(s) ==
    /\ At(s, Cua, "build")
    /\ IF ~HeaderAccepted(calls[s].token)
       THEN CuaReturn(s, CuaFailed("invalid header value"))
       ELSE IF ~updaterCfgOk
       THEN CuaReturn(s, CuaFailed("updater configuration"))
       ELSE /\ calls' = [calls EXCEPT ![s].pc = "check"]
            /\ UNCHANGED lastCheck
    /\ UNCHANGED <<Fixed, env>>

(* lib.rs:208-234 *)
CuaChecked(reply) ==
    CASE reply.kind = "update" -> CuaAvailable(reply)
      [] reply.kind = "none" -> CuaNoUpdate
      [] reply.kind = "err" -> CuaFailed(reply.msg)

CuaCheck(s) ==
    /\ At(s, Cua, "check")
    /\ LET reply == CheckAnswer(calls[s].token)
           result == CuaChecked(reply)
       IN  /\ calls' = End(s, [calls[s] EXCEPT !.pc = "returned",
                                                !.result = Some(result),
                                                !.checkCalls = @ + 1,
                                                !.checkRet = reply.kind])
           /\ lastCheck' = Variant(result)
    /\ UNCHANGED <<Fixed, env>>

CuaNext(s) ==
    \/ CuaToken1(s)
    \/ CuaToken2(s)
    \/ CuaBuild(s)
    \/ CuaCheck(s)

-----------------------------------------------------------------------------
(* check_and_install_update, lib.rs:237-321 *)

Cai == "check_and_install_update"

(* lib.rs:239-242: the variables in the order they are read *)
CaiTokenSourcesTauriFirst == <<TauriVar, GithubVar>>
CaiTokenSources == <<GithubVar, TauriVar>>

(* lib.rs:239-241 *)
CaiToken1(s) ==
    /\ At(s, Cai, "token1")
    /\ LET t == OrElse(buildToken, env[CaiTokenSources[1]])
       IN  calls' = [calls EXCEPT ![s].token = t,
                                  ![s].pc = IF IsSome(t) THEN "build" ELSE "token2"]
    /\ UNCHANGED <<Fixed, env, lastCheck>>

(* lib.rs:242 *)
CaiToken2(s) ==
    /\ At(s, Cai, "token2")
    /\ calls' = [calls EXCEPT ![s].token = OrElse(@, env[CaiTokenSources[2]]),
                               ![s].pc = "build"]
    /\ UNCHANGED <<Fixed, env, lastCheck>>

(* lib.rs:249-255, 263-269, 285-291 *)
CaiFailedInstalled(e) == UpdateResult(FALSE, None, None, Some(<<e>>), TRUE)
CaiFailed(e) == UpdateResult(FALSE, None, None, Some(<<e>>), FALSE)
(* lib.rs:276-282 *)
CaiNoUpdate == UpdateResult(FALSE, None, None, None, FALSE)

(* lib.rs:244-271 *)
CaiBuild(s) ==
    /\ At(s, Cai, "build")
    /\ calls' = IF ~HeaderAccepted(calls[s].token)
                THEN Return(s, CaiFailed("invalid header value"))
                ELSE IF ~updaterCfgOk
                THEN Return(s, CaiFailed("updater configuration"))
                ELSE [calls EXCEPT ![s].pc = "check"]
    /\ UNCHANGED <<Fixed, env, lastCheck>>

(* lib.rs:273-296: where the answer of check() leads *)
CaiCheckedRetry(c, reply) ==
    CASE reply.kind = "update" ->
            [c EXCEPT !.pc = "install", !.update = reply]
      [] reply.kind = "none" ->
            [c EXCEPT !.pc = "returned", !.result = Some(CaiNoUpdate)]
      [] reply.kind = "err" -> [c EXCEPT !.pc = "check"]
CaiCheckedInstallAnyway(c, reply) ==
    CASE reply.kind \in {"update", "none"} ->
            [c EXCEPT !.pc = "install", !.update = reply]
      [] reply.kind = "err" ->
            [c EXCEPT !.pc = "returned", !.result = Some(CaiFailed(reply.msg))]
CaiChecked(c, reply) ==
    CASE reply.kind = "update" ->
            [c EXCEPT !.pc = "install", !.update = reply]
      [] reply.kind = "none" ->
            [c EXCEPT !.pc = "returned", !.result = Some(CaiNoUpdate)]
      [] reply.kind = "err" ->
            [c EXCEPT !.pc = "returned", !.result = Some(CaiFailed(reply.msg))]

CaiCheck(s) ==
    /\ At(s, Cai, "check")
    /\ LET reply == CheckAnswer(calls[s].token)
       IN  calls' = [calls EXCEPT ![s] =
                        CaiChecked([calls[s] EXCEPT !.checkCalls = @ + 1,
                                                    !.checkRet = reply.kind], reply)]
    /\ UNCHANGED <<Fixed, env, lastCheck>>

(* lib.rs:305-320 *)
CaiInstalledAlways(version, body, install) ==
    UpdateResult(TRUE, Some(version), body, None, TRUE)
CaiInstalled(version, body, install) ==
    IF install.ok
    THEN UpdateResult(TRUE, Some(version), body, None, TRUE)
    ELSE UpdateResult(TRUE, Some(version), body,
                      Some(<<"Installation échouée: ", install.msg>>), FALSE)

InstallOutcomes == { [ok |-> TRUE, msg |-> ""], [ok |-> FALSE, msg |-> "signature"] }

(* lib.rs:295-320 *)
CaiInstall(s) ==
    /\ At(s, Cai, "install")
    /\ \E install \in InstallOutcomes :
          LET version == calls[s].update.version
              body == calls[s].update.body
          IN  calls' = End(s, [calls[s] EXCEPT
                          !.pc = "returned",
                          !.result = Some(CaiInstalled(version, body, install)),
                          !.installCalls = @ + 1,
                          !.installRet = IF install.ok THEN "ok" ELSE "err"])
    /\ UNCHANGED <<Fixed, env, lastCheck>>

CaiNext(s) ==
    \/ CaiToken1(s)
    \/ CaiToken2(s)
    \/ CaiBuild(s)
    \/ CaiCheck(s)
    \/ CaiInstall(s)

-----------------------------------------------------------------------------

Commands == {Gav, Cua, Cai}

Next ==
    \/ \E s \in Slots, op \in Commands : Invoke(s, op)
    \/ \E s \in Slots : GavNext(s)
    \/ CuaNext(Observed)
    \/ CaiNext(Observed)

Spec == Init /\ [][Next]_vars

SpecNorm == InitNorm /\ [][Next]_vars

-----------------------------------------------------------------------------
(* Properties *)

Obs == calls[Observed]
Returned(op) == Obs.op = op /\ Obs.pc = "returned"
Result == Unwrap(Obs.result)

(* The invocation has got past its credential resolution.                  *)
ClientFailed(c) == c.op = Gav /\ c.pc = "returned" /\ c.http = "-"
Resolved(c) ==
    \/ c.pc \in {"request", "build", "check", "install", "panicked"}
    \/ c.pc = "returned" /\ ~ClientFailed(c)

(* C1: when check() of an invocation of check_and_install_update reports   *)
(* no update, the invocation returns the NoUpdate value (available false,  *)
(* installed false, no version, no error) and download_and_install is not  *)
(* called in it.                                                           *)
C1_NoUpdateNoInstall ==
    (Obs.op = Cai /\ Obs.checkRet = "none") =>
        /\ Obs.pc = "returned"
        /\ Obs.installCalls = 0
        /\ Result.available = FALSE
        /\ Result.installed = FALSE
        /\ Result.version = None
        /\ Result.error = None

C1_Witness == Returned(Cai) /\ Obs.checkRet = "none" /\ Obs.checkCalls = 1

(* C2: when check() found an update and download_and_install failed, the   *)
(* value returned has installed false and an error, while available is     *)
(* true and the version and notes found are reported.                      *)
C2_InstallFailureReported ==
    (Returned(Cai) /\ Obs.installRet = "err") =>
        /\ Result.installed = FALSE
        /\ IsSome(Result.error)
        /\ Result.available = TRUE
        /\ Result.version = Some(CheckAnswer(Obs.token).version)
        /\ Result.body = CheckAnswer(Obs.token).body

C2_Witness ==
    /\ Returned(Cai) /\ Obs.installRet = "err" /\ Obs.checkRet = "update"
    /\ IsSome(Result.body)

(* C3: in every value check_and_install_update returns, installed implies  *)
(* available, and installed is true only when check() returned an update   *)
(* and download_and_install succeeded in that invocation.                  *)
C3_InstalledOnlyAfterAvailable ==
    (Returned(Cai) /\ Result.installed) =>
        /\ Result.available
        /\ Obs.checkRet = "update"
        /\ Obs.installRet = "ok"

C3_Witness == Returned(Cai) /\ Result.installed /\ IsSome(Obs.token)

(* C4: every value get_app_versions returns carries the version of the     *)
(* running application in current, and when the request did not bring a    *)
(* parsed 2xx document (the client could not be built, the transport       *)
(* failed, the status was not 2xx, the body did not parse) api_error is    *)
(* set and latest is None.                                                 *)
C4_CurrentAlwaysReported ==
    Returned(Gav) =>
        /\ Result.current = AppVersion
        /\ Result.current # ""
        /\ (Obs.http # "json" => IsSome(Result.api_error) /\ Result.latest = None)

C4_Witness == Returned(Gav) /\ Obs.http = "send_err" /\ IsSome(Obs.sent)

(* C5: with no build-time token, every command resolves the credential to  *)
(* TAURI_UPDATE_TOKEN when that variable is set, GITHUB_TOKEN being set or  *)
(* not. (A variable set when the process started keeps its value.)         *)
C5_DedicatedVariableFirst ==
    \A s \in Slots :
        (~IsSome(buildToken) /\ Resolved(calls[s]) /\ IsSome(startEnv[TauriVar])) =>
            calls[s].token = startEnv[TauriVar]

(* C6: with a build-time token in the binary, every command resolves the   *)
(* credential to it, whatever the environment variables and the .env files *)
(* hold.                                                                   *)
C6_BuildTokenFirst ==
    \A s \in Slots :
        (IsSome(buildToken) /\ Resolved(calls[s])) => calls[s].token = buildToken

C6_Witness ==
    /\ IsSome(buildToken)
    /\ Obs.op = Cua /\ Resolved(Obs)
    /\ IsSome(env[TauriVar]) /\ env[TauriVar] # buildToken
    /\ IsSome(env[GithubVar])

(* C7: the version reported for a tag is the tag less the first of         *)
(* "app-v", "app-", "v" that it begins with, and the tag itself when it    *)
(* begins with none; the remainder is not stripped again. The four tags of *)
(* the specification give "1.2.3", "2.0.0", "3.1.0", "4.0.0".              *)
Begins(t, p) == Len(t) >= Len(p) /\ \A i \in 1..Len(p) : t[i] = p[i]
FirstPrefix(t) ==
    IF Begins(t, <<"a", "p", "p", "-", "v">>) THEN <<"a", "p", "p", "-", "v">>
    ELSE IF Begins(t, <<"a", "p", "p", "-">>) THEN <<"a", "p", "p", "-">>
    ELSE IF Begins(t, <<"v">>) THEN <<"v">>
    ELSE <<>>
SpecExamples ==
    { << <<"a", "p", "p", "-", "v", "1", ".", "2", ".", "3">>, <<"1", ".", "2", ".", "3">> >>,
      << <<"a", "p", "p", "-", "2", ".", "0", ".", "0">>, <<"2", ".", "0", ".", "0">> >>,
      << <<"v", "3", ".", "1", ".", "0">>, <<"3", ".", "1", ".", "0">> >>,
      << <<"4", ".", "0", ".", "0">>, <<"4", ".", "0", ".", "0">> >> }
ServedTag == Obs.doc.tag_name[2]
C7_OnePrefixStripped ==
    (Returned(Gav) /\ Obs.http = "json" /\ Obs.doc.tag_name[1] = "string") =>
        /\ IsSome(Result.latest)
        /\ ServedTag = FirstPrefix(ServedTag) \o Unwrap(Result.latest)
        /\ \A ex \in SpecExamples : ServedTag = ex[1] => Unwrap(Result.latest) = ex[2]

C7_Witness ==
    /\ Returned(Gav) /\ Obs.http = "json"
    /\ Obs.doc.tag_name = JString(<<"a", "p", "p", "-", "v", "v">>)
    /\ Result.latest = Some(<<"v">>)

(* C8: a check_update_with_auth invoked after another one has returned,    *)
(* nothing outside the program having changed, returns the same variant    *)
(* (NoUpdate, Available, Failed), whatever commands ran meanwhile.         *)
C8_SameVariantTwice ==
    (Returned(Cua) /\ Obs.prev # "-") => Variant(Result) = Obs.prev

(* C9: the credential an invocation of check_update_with_auth or           *)
(* check_and_install_update uses does not depend on how it interleaves     *)
(* with invocations of get_app_versions: it is the one resolved from the   *)
(* environment the process has when no get_app_versions runs.              *)
C9_CredentialFreeOfInterleaving ==
    (Obs.op \in {Cua, Cai} /\ Resolved(Obs)) =>
        Obs.token = OrElse(OrElse(buildToken, startEnv[GithubVar]), startEnv[TauriVar])

(* C10: no invocation ends in a panic: each one ends by returning a value. *)
C10_NoPanic == \A s \in Slots : calls[s].pc # "panicked"

(* C11: every failure an update command returns names the stage that       *)
(* failed: a rejected bearer header as "credential", a failed              *)
(* builder.build() as "client-build", a failed check() as "network", a     *)
(* failed download_and_install as "install".                               *)
(* FailedStage is the stage the invocation failed at; StageRead is what    *)
(* the returned value tells: a stage member if it has one, and "install"   *)
(* for the one failure returned with available true (lib.rs:313-319).      *)
FailedStage(c) ==
    IF c.pc # "returned" \/ c.op \notin {Cua, Cai} THEN "-"
    ELSE IF c.installRet = "err" THEN "install"
    ELSE IF c.checkRet = "err" THEN "network"
    ELSE IF c.checkCalls = 0 /\ ~HeaderAccepted(c.token) THEN "credential"
    ELSE IF c.checkCalls = 0 THEN "client-build"
    ELSE "-"
StageRead(r) ==
    IF "stage" \in DOMAIN r THEN r.stage
    ELSE IF r.available /\ IsSome(r.error) THEN "install"
    ELSE "-"
C11_StageReported ==
    FailedStage(Obs) # "-" => StageRead(Result) = FailedStage(Obs)

(* C12: with no build-time token, TAURI_UPDATE_TOKEN unset and             *)
(* GITHUB_TOKEN set, every command resolves the credential to the value of *)
(* GITHUB_TOKEN. (With GITHUB_TOKEN set no .env of the parent directory is *)
(* loaded, so TAURI_UPDATE_TOKEN stays unset.)                             *)
C12_GenericVariableFallback ==
    \A s \in Slots :
        ( /\ ~IsSome(buildToken)
          /\ Resolved(calls[s])
          /\ ~IsSome(startEnv[TauriVar])
          /\ IsSome(startEnv[GithubVar]) ) =>
            calls[s].token = startEnv[GithubVar]

C12_Witness ==
    /\ ~IsSome(buildToken)
    /\ ~IsSome(startEnv[TauriVar]) /\ IsSome(startEnv[GithubVar])
    /\ files.parent.exists
    /\ Obs.op = Gav /\ Resolved(Obs) /\ Obs.token = startEnv[GithubVar]
    /\ \E s \in Slots : calls[s].op = Gav /\ calls[s].pc = "client"

(* C13: an invocation of check_and_install_update calls check() at most    *)
(* once and download_and_install at most once, calls download_and_install  *)
(* only after check() returned an update in that invocation, and after a   *)
(* failure of the header, of builder.build() or of check() returns with no *)
(* further call to the updater.                                            *)
C13_NoRetryCheckThenInstall ==
    Obs.op = Cai =>
        /\ Obs.checkCalls <= 1 /\ Obs.installCalls <= 1
        /\ (Obs.pc = "check" => Obs.checkCalls = 0)
        /\ (Obs.pc = "install" => Obs.installCalls = 0)
        /\ (Obs.pc = "install" \/ Obs.installCalls = 1) =>
               (Obs.checkCalls = 1 /\ Obs.checkRet = "update")
        /\ Obs.checkRet \in {"err", "none"} =>
               (Obs.pc = "returned" /\ Obs.installCalls = 0)
        /\ (Obs.pc = "returned" /\ Obs.checkRet = "-") =>
               (Obs.checkCalls = 0 /\ Obs.installCalls = 0 /\ IsSome(Result.error))
        /\ Obs.installRet # "-" => Obs.pc = "returned"

C13_Witness ==
    /\ Returned(Cai) /\ Obs.checkCalls = 1 /\ Obs.installCalls = 1
    /\ Obs.installRet = "ok"

(* What check_update_with_auth returns for a credential under the         *)
(* conditions of the run: header construction, builder.build(), check().   *)
AvailabilityCheck(token) ==
    IF ~HeaderAccepted(token) THEN CuaFailed("invalid header value")
    ELSE IF ~updaterCfgOk THEN CuaFailed("updater configuration")
    ELSE CuaChecked(CheckAnswer(token))

UpToCheck(r) == UpdateInfo(r.available, r.version, r.body, r.error)

UpdateCredential(e) == OrElse(OrElse(buildToken, e[GithubVar]), e[TauriVar])

(* C14: under the same build-time token, environment, header, build and    *)
(* check() outcomes, check_and_install_update and check_update_with_auth   *)
(* resolve the same credential and agree on available, version, body and   *)
(* error on every path up to and including the check; only                 *)
(* check_and_install_update goes on to download_and_install, and only when *)
(* an update was found.                                                    *)
C14_SameAvailabilityCheck ==
    /\ (Obs.op \in {Cua, Cai} /\ Resolved(Obs) /\ env = startEnv) =>
           Obs.token = UpdateCredential(startEnv)
    /\ Obs.op = Cua => (Obs.installCalls = 0 /\ Obs.pc # "install")
    /\ Returned(Cua) => Result = AvailabilityCheck(Obs.token)
    /\ (Returned(Cai) /\ Obs.installCalls = 0) =>
           /\ UpToCheck(Result) = AvailabilityCheck(Obs.token)
           /\ ~Result.available
    /\ (Obs.op = Cai /\ (Obs.pc = "install" \/ Obs.installCalls = 1)) =>
           /\ AvailabilityCheck(Obs.token).available
           /\ Obs.pc = "returned" =>
                  /\ Result.available
                  /\ Result.version = AvailabilityCheck(Obs.token).version
                  /\ Result.body = AvailabilityCheck(Obs.token).body
    /\ (Obs.op = Cai /\ Resolved(Obs) /\ Obs.prev # "-" /\ env = startEnv) =>
           Obs.prev = Variant(AvailabilityCheck(Obs.token))

(* check_and_install_update returned a failed check after                  *)
(* check_update_with_auth had reported the same under the same conditions  *)
C14_Witness ==
    /\ Returned(Cai) /\ Obs.checkRet = "err" /\ Obs.installCalls = 0
    /\ Obs.prev = "Failed" /\ env = startEnv
    /\ IsSome(startEnv[TauriVar]) = FALSE

IsJString(v) == v[1] = "string"

C16_ServerErrorWhateverTheBody ==
    (Returned(Gav) /\ Obs.http = "status") =>
        /\ IsSome(Result.api_error)
        /\ Len(Unwrap(Result.api_error)) = 3
        /\ SubSeq(Unwrap(Result.api_error), 1, 2) = Obs.status
        /\ IsSome(Obs.errBody) => Unwrap(Result.api_error)[3] = Unwrap(Obs.errBody)
        /\ ~IsSome(Obs.errBody) =>
               Unwrap(Result.api_error)[3] = "Impossible de lire le corps"
        /\ Result.current = AppVersion
        /\ Result.latest = None /\ Result.latest_notes = None

(* a 403 whose body could not be read *)
C16_Witness ==
    /\ Returned(Gav) /\ Obs.http = "status" /\ ~IsSome(Obs.errBody)
    /\ Result.api_error = Some(<<"403", "Forbidden", "Impossible de lire le corps">>)
    /\ Result.current = AppVersion

(* The environment once get_app_versions has done its loads, from the     *)
(* environment the working-directory load leaves (startEnv).               *)
EnvAfterLoads ==
    IF /\ ~IsSome(startEnv[TauriVar]) /\ ~IsSome(startEnv[GithubVar])
       /\ files.parent.exists
    THEN files.parent.vars
    ELSE startEnv

KnownApiErrors ==
    { <<"builder error">>, <<"error sending request">>,
      <<"404", "Not Found", "body">>,
      <<"403", "Forbidden", "Impossible de lire le corps">>,
      <<"Erreur parsing JSON: ", "decode">> }

C18_ErrorExcludesData ==
    Returned(Gav) =>
        /\ IsSome(Result.api_error) =>
               (Result.latest = None /\ Result.latest_notes = None)
        /\ (IsSome(Result.latest) \/ IsSome(Result.latest_notes)) =>
               Result.api_error = None
        /\ (ClientFailed(Obs) \/ Obs.http \in {"send_err", "status", "bad_json"}) =>
               IsSome(Result.api_error)

(* the HTTP client could not be built *)
C18_Witness ==
    /\ Returned(Gav) /\ ClientFailed(Obs)
    /\ IsSome(Result.api_error)
    /\ Result.latest = None /\ Result.latest_notes = None

(* C19: in every UpdateInfo check_update_with_auth returns and every       *)
(* UpdateResult check_and_install_update returns, available is true        *)
(* exactly when version is present, available false has body absent,       *)
(* installed true has error absent, and available false with error absent  *)
(* is returned exactly when check() reported no update.                    *)
C19_ResultFieldsConsistent ==
    (Returned(Cua) \/ Returned(Cai)) =>
        /\ Result.available <=> IsSome(Result.version)
        /\ ~Result.available => Result.body = None
        /\ ("installed" \in DOMAIN Result /\ Result.installed) => Result.error = None
        /\ (~Result.available /\ Result.error = None) <=> Obs.checkRet = "none"
        /\ Returned(Cua) <=> "installed" \notin DOMAIN Result

(* check_update_with_auth found an update that has release notes *)
C19_Witness ==
    /\ Returned(Cua) /\ Obs.checkRet = "update"
    /\ Result.available /\ Result.version = Some("2.0.0")
    /\ IsSome(Result.body) /\ Result.error = None

====
